---- MODULE Spec2Model ----
(***************************************************************************)
(* A model of aws-cost-exporter (src/main.go): the four window jobs        *)
(* (updateDailyMetrics, updateMonthlyMetrics, updatePreviousDayMetrics,    *)
(* updatePreviousMonthMetrics), the cycle that chains them (updateMetrics),*)
(* the background updater (startMetricsUpdater) and main.                  *)
(*                                                                         *)
(* The Cost Explorer client, the Prometheus gauge vectors, the ticker and  *)
(* the context are library objects; they are modelled by what the calls    *)
(* made in main.go do to them.                                             *)
(***************************************************************************)
EXTENDS Integers, Sequences, FiniteSets, TLC

VARIABLES
    mainPc,         \* main goroutine: "startup", "spawn", "listen", "serving", "exited"
    updPc,          \* updater goroutine: "none", "spawned", "first", "select", "cycle", "exited"
    job,            \* position of the running updateMetrics call: 0 = none, 1..4
    jpc,            \* position inside the running job: "idle", "start", "fetch",
                    \* "fetch_cancelled", "fetch_interrupted", "reset", "loop", "set"
    result,         \* groups of the fetch result the running job iterates over
    idx,            \* index of the group the running job is at
    gauge,          \* the four gauge vectors: window -> (label pair -> value)
    ticker,         \* number of ticks buffered in ticker.C (capacity 1)
    cancelled,      \* ctx.Done() is closed
    today,          \* the local calendar date of time.Now(), as a day number
    req,            \* window -> the TimePeriod last sent for it (NoRange = none yet)
    scraped,        \* the last /metrics observation of one gauge vector
    health,         \* the last /health response status (0 = none yet)
    cycleErr,       \* the error the last updateMetrics call returned: 0 = nil, k = that of job k
    calls,          \* history: the windows fetched for in the running (or last) cycle, in order
    preCycle,       \* history: window -> what its gauge exposed when that cycle began
    lastOk,         \* history: window -> mapping described by its last successful fetch
    startupCycles,  \* history: number of cycles started without receiving a tick
    startupFailed   \* history: main's startup cycle returned an error

vars == <<mainPc, updPc, job, jpc, result, idx, gauge, ticker, cancelled, today,
          req, scraped, health, cycleErr, calls, preCycle, lastOk, startupCycles,
          startupFailed>>

----------------------------------------------------------------------------
(* Bounds of the model *)

\* longest fetch result (number of groups) in the program and aggregation runs
MaxGroups == 2

\* number of consecutive days from FirstDate that 'now' is drawn from
DateSpan == 420

\* decimal places kept of a parsed amount (values are integers scaled by 10^FracDigits)
FracDigits == 4

\* first calendar date 'now' is drawn from
FirstDate == <<2023, 2, 20>>

\* days the clock may advance over in the runs with a moving clock
ClockSpan == 3

----------------------------------------------------------------------------
(* The windows, in the order updateMetrics runs their jobs *)

Order == <<"daily", "monthly", "previous_day", "previous_month">>

Windows == {Order[i] : i \in 1..Len(Order)}

----------------------------------------------------------------------------
(* Calendar arithmetic of package time, as time.Date, Time.AddDate and      *)
(* Time.Format("2006-01-02") compute it.  A Time is modelled by its local  *)
(* calendar day, numbered from 0001-01-01 = 0; the time of day and the     *)
(* zone offset do not enter any of the computed ranges.                    *)

isLeap(year) == year % 4 = 0 /\ (year % 100 # 0 \/ year % 400 = 0)

\* days before the first of each month in a non-leap year, then the year's length
daysBefore == <<0, 31, 59, 90, 120, 151, 181, 212, 243, 273, 304, 334, 365>>

\* floor division and modulus on possibly negative numerators
FloorDiv(a, b) == IF a >= 0 THEN a \div b ELSE -((-a + b - 1) \div b)

FloorMod(a, b) == a - b * FloorDiv(a, b)

\* days from 0001-01-01 to January 1 of year
daysSinceEpoch(year) ==
    LET y == year - 1
    IN  365 * y + y \div 4 - y \div 100 + y \div 400

\* time.Date(year, month, day, ...): month and day may be out of range and are
\* normalised: months overflow into years, days are simply added
Date(year, month, day) ==
    LET m0 == month - 1
        y  == year + FloorDiv(m0, 12)
        m  == FloorMod(m0, 12) + 1
        d0 == daysSinceEpoch(y) + daysBefore[m]
        d1 == IF isLeap(y) /\ m >= 3 THEN d0 + 1 ELSE d0
    IN  d1 + day - 1

\* Time.Date(): the <<year, month, day>> of a day number
absDate(days) ==
    LET n400 == days \div 146097
        d1   == days - 146097 * n400
        c100 == d1 \div 36524
        n100 == c100 - (c100 \div 4)
        d2   == d1 - 36524 * n100
        n4   == d2 \div 1461
        d3   == d2 - 1461 * n4
        c1   == d3 \div 365
        n1   == c1 - (c1 \div 4)
        yday == d3 - 365 * n1
        year == 400 * n400 + 100 * n100 + 4 * n4 + n1 + 1
        leap == isLeap(year)
        \* the day of the year with February 29 taken out
        adj  == IF leap /\ yday > 59 THEN yday - 1 ELSE yday
        feb29 == leap /\ yday = 59
        month == IF feb29 THEN 2
                 ELSE CHOOSE m \in 1..12 : daysBefore[m] <= adj /\ adj < daysBefore[m + 1]
        day   == IF feb29 THEN 29 ELSE adj - daysBefore[month] + 1
    IN  <<year, month, day>>

\* t.AddDate(years, months, days)
AddDate(t, years, months, days) ==
    LET c == absDate(t)
    IN  Date(c[1] + years, c[2] + months, c[3] + days)

\* t.Format("2006-01-02"): the date string, kept as <<year, month, day>>
Format(t) == absDate(t)

\* the TimePeriod of updateDailyMetrics
DailyRange(now) ==
    LET yesterday == AddDate(now, 0, 0, -1)
    IN  [Start |-> Format(yesterday), End |-> Format(now)]

\* the TimePeriod of updateMonthlyMetrics
MonthlyRange(now) ==
    LET c == absDate(now)
        startOfMonth == Date(c[1], c[2], 1)
    IN  [Start |-> Format(startOfMonth), End |-> Format(now)]

\* the TimePeriod of updatePreviousDayMetrics
PreviousDayRange(now) ==
    LET twoDaysAgo == AddDate(now, 0, 0, -2)
        yesterday  == AddDate(now, 0, 0, -1)
    IN  [Start |-> Format(twoDaysAgo), End |-> Format(yesterday)]

\* mutant: the previous month taken from now.AddDate(0, -1, 0) instead of from
\* the first day of the current month
PreviousMonthRange_FromNow(now) ==
    LET c == absDate(now)
        firstDayOfCurrentMonth == Date(c[1], c[2], 1)
        p == absDate(AddDate(now, 0, -1, 0))
        firstDayOfPreviousMonth == Date(p[1], p[2], 1)
    IN  [Start |-> Format(firstDayOfPreviousMonth), End |-> Format(firstDayOfCurrentMonth)]

\* the TimePeriod of updatePreviousMonthMetrics
PreviousMonthRange(now) ==
    LET c == absDate(now)
        firstDayOfCurrentMonth  == Date(c[1], c[2], 1)
        firstDayOfPreviousMonth == AddDate(firstDayOfCurrentMonth, 0, -1, 0)
    IN  [Start |-> Format(firstDayOfPreviousMonth), End |-> Format(firstDayOfCurrentMonth)]

\* the TimePeriod the job of window w sends when time.Now() is now
RangeOf(w, now) ==
    CASE w = "daily"          -> DailyRange(now)
      [] w = "monthly"        -> MonthlyRange(now)
      [] w = "previous_day"   -> PreviousDayRange(now)
      [] w = "previous_month" -> PreviousMonthRange(now)

\* the day number of FirstDate
FirstDay == Date(FirstDate[1], FirstDate[2], FirstDate[3])

\* the days 'now' is drawn from (the two days before them are needed as range starts)
Days == (FirstDay + 2) .. (FirstDay + DateSpan)

\* the first day of the runs with a moving clock
ClockFirst == Date(2024, 2, 28)

----------------------------------------------------------------------------
(* Fetched groups.  A group carries Keys (a list of strings) and Metrics, a *)
(* map from metric name to a MetricValue whose Amount is a *string: Amount  *)
(* is modelled as [set, str], set = FALSE being the nil pointer, and str a  *)
(* sequence of one-character strings.  The ResultsByTime/Groups nesting is  *)
(* modelled by the flat sequence of groups in iteration order.              *)

Nil == [set |-> FALSE, str |-> <<>>]

Str(s) == [set |-> TRUE, str |-> s]

NoMetrics == [m \in {} |-> Nil]

Metric(name, amount) == [m \in {name} |-> amount]

Group(keys, metrics) == [Keys |-> keys, Metrics |-> metrics]

DigitChars == <<"0", "1", "2", "3", "4", "5", "6", "7", "8", "9">>

IsDigit(c) == \E i \in 1..10 : DigitChars[i] = c

DigitVal(c) == (CHOOSE i \in 1..10 : DigitChars[i] = c) - 1

RECURSIVE Pow10(_)
Pow10(n) == IF n = 0 THEN 1 ELSE 10 * Pow10(n - 1)

\* the decimal digits of s read as one natural number, the point skipped
RECURSIVE Mantissa(_, _)
Mantissa(s, acc) ==
    IF s = <<>> THEN acc
    ELSE IF s[1] = "." THEN Mantissa(Tail(s), acc)
    ELSE Mantissa(Tail(s), 10 * acc + DigitVal(s[1]))

\* strconv.ParseFloat(s, 64) on decimal literals: an optional sign, digits with
\* at most one point, at least one digit; anything else is a syntax error.
\* The value is kept exactly, as an integer scaled by 10^FracDigits.
ParseFloat(s) ==
    LET signed == s # <<>> /\ s[1] \in {"+", "-"}
        body   == IF signed THEN Tail(s) ELSE s
        points == {i \in 1..Len(body) : body[i] = "."}
        ok     == /\ \A i \in 1..Len(body) : IsDigit(body[i]) \/ body[i] = "."
                  /\ Cardinality(points) <= 1
                  /\ \E i \in 1..Len(body) : IsDigit(body[i])
        frac   == IF points = {} THEN 0 ELSE Len(body) - (CHOOSE i \in points : TRUE)
        mag    == Mantissa(body, 0) * Pow10(FracDigits - frac)
    IN  IF ok THEN [err |-> FALSE, f |-> IF s[1] = "-" THEN -mag ELSE mag]
        ELSE [err |-> TRUE, f |-> 0]

\* mutant: the error of ParseFloat is ignored, an unparsable amount is Set as 0
Accepted_DefaultZero(group) ==
    /\ Len(group.Keys) >= 2
    /\ "UnblendedCost" \in DOMAIN group.Metrics
    /\ group.Metrics["UnblendedCost"].set

\* the conditions of lines 109-114 under which a group reaches Set
Accepted(group) ==
    /\ Len(group.Keys) >= 2
    /\ "UnblendedCost" \in DOMAIN group.Metrics
    /\ group.Metrics["UnblendedCost"].set
    /\ ~ParseFloat(group.Metrics["UnblendedCost"].str).err

\* the label values and the amount a group is Set with
LabelsOf(group) == <<group.Keys[1], group.Keys[2]>>

AmountOf(group) == ParseFloat(group.Metrics["UnblendedCost"].str).f

\* sequences over S of length at most n
SeqsUpTo(S, n) == UNION {[1..k -> S] : k \in 0..n}

----------------------------------------------------------------------------
(* Gauge vectors.  A GaugeVec is the function from the label pairs it holds *)
(* to their values; Reset leaves the function with the empty domain.        *)

EmptyVec == [lp \in {} |-> 0]

\* mutant: the vector is not cleared, new values are merged into the old ones
VecReset_Keep(vec) == vec

\* GaugeVec.Reset()
VecReset(vec) == EmptyVec

\* GaugeVec.WithLabelValues(service, region): the child is created with value 0
\* when the vector does not hold it yet
VecWithLabelValues(vec, lp) ==
    IF lp \in DOMAIN vec THEN vec
    ELSE [x \in DOMAIN vec \cup {lp} |-> IF x = lp THEN 0 ELSE vec[x]]

\* mutant: Gauge.Add(amount) in the place of Gauge.Set(amount)
VecSet_Add(vec, lp, amount) == [vec EXCEPT ![lp] = @ + amount]

\* Gauge.Set(amount) on the child of lp
VecSet(vec, lp, amount) == [vec EXCEPT ![lp] = amount]

NoRange == [Start |-> <<>>, End |-> <<>>]

----------------------------------------------------------------------------
(* Inputs: the groups a fetch may return *)

EC2 == <<"AmazonEC2", "us-east-1">>

S3 == <<"AmazonS3", "us-west-2">>

\* groups of the program runs: one with a label pair and a well-formed amount,
\* one with a single key
CycleGroups ==
    { Group(EC2, Metric("UnblendedCost", Str(<<"5">>))),
      Group(<<"AmazonEC2">>, Metric("UnblendedCost", Str(<<"5">>))) }

CycleResults == SeqsUpTo(CycleGroups, MaxGroups)

----------------------------------------------------------------------------
(* The program *)

NoScrape == [window |-> "", seen |-> EmptyVec]

\* no handler is between its read and its response
NoRequest == scraped = NoScrape /\ health = 0

\* the process is alive.  A request is answered as one read followed by the
\* response: once a handler has read the gauge vector the rest of it touches
\* nothing the goroutines share, so its response is taken before the next step
\* of the program
Running == mainPc # "exited" /\ NoRequest

\* the window whose job the running cycle is at
Current == Order[job]

\* mutant: main ends the process when the startup cycle fails
CycleReturns_Fatal(err) ==
    /\ job' = 0
    /\ jpc' = "idle"
    /\ result' = <<>>
    /\ idx' = 0
    /\ cycleErr' = err
    /\ IF mainPc = "startup"
       THEN /\ mainPc' = (IF err # 0 THEN "exited" ELSE "spawn")
            /\ startupFailed' = (err # 0)
            /\ UNCHANGED updPc
       ELSE updPc' = "select" /\ UNCHANGED <<mainPc, startupFailed>>

\* the goroutine running the cycle returns from updateMetrics: main logs a
\* warning on error and goes on (lines 365-367); the updater drops the error
\* of its first cycle (line 331) and logs that of a tick cycle (lines 336-338)
CycleReturns(err) ==
    /\ job' = 0
    /\ jpc' = "idle"
    /\ result' = <<>>
    /\ idx' = 0
    /\ cycleErr' = err
    /\ IF mainPc = "startup"
       THEN mainPc' = "spawn" /\ startupFailed' = (err # 0) /\ UNCHANGED updPc
       ELSE updPc' = "select" /\ UNCHANGED <<mainPc, startupFailed>>

\* the goroutine running the cycle is inside a call of GetCostAndUsage (line 96)
FetchInFlight == job # 0 /\ jpc \in {"fetch", "fetch_cancelled", "fetch_interrupted"}

\* a job reads time.Now(), computes its TimePeriod and calls GetCostAndUsage(ctx, ...);
\* a call made with a context that is already done can only fail
JobStart(w) ==
    /\ Running /\ job # 0 /\ Current = w /\ jpc = "start"
    /\ req' = [req EXCEPT ![w] = RangeOf(w, today)]
    /\ calls' = Append(calls, w)
    /\ jpc' = IF cancelled THEN "fetch_cancelled" ELSE "fetch"
    /\ UNCHANGED <<mainPc, updPc, job, result, idx, gauge, ticker, cancelled, today,
                   scraped, health, cycleErr, preCycle, lastOk, startupCycles,
                   startupFailed>>

\* reference: the mapping a sequence of groups describes, stated without the
\* loop.  A group counts when it has at least two keys and an UnblendedCost
\* amount that is present and parses; a label pair is present iff some group
\* that counts carries it, and holds the parsed amount of the last such group
Snapshot(groups) ==
    LET amount(g) == g.Metrics["UnblendedCost"]
        counts(g) == /\ Len(g.Keys) >= 2
                     /\ \E m \in DOMAIN g.Metrics : m = "UnblendedCost"
                     /\ amount(g) # Nil
                     /\ amount(g).set
                     /\ ParseFloat(amount(g).str).err = FALSE
        pair(g)   == <<g.Keys[1], g.Keys[2]>>
        hits(lp)  == {i \in 1..Len(groups) : counts(groups[i]) /\ pair(groups[i]) = lp}
        last(lp)  == CHOOSE i \in hits(lp) : \A j \in hits(lp) : j <= i
        pairs     == {pair(groups[i]) : i \in {j \in 1..Len(groups) : counts(groups[j])}}
    IN  [lp \in pairs |-> ParseFloat(amount(groups[last(lp)]).str).f]

\* GetCostAndUsage returns a result, one of R (lines 96-102)
FetchOk(w, R) ==
    /\ Running /\ job # 0 /\ Current = w /\ jpc = "fetch"
    /\ \E r \in R :
        /\ result' = r
        /\ lastOk' = [lastOk EXCEPT ![w] = Snapshot(r)]
    /\ jpc' = "reset"
    /\ UNCHANGED <<mainPc, updPc, job, idx, gauge, ticker, cancelled, today, req,
                   scraped, health, preCycle, startupCycles, startupFailed,
                   cycleErr, calls>>

\* mutant: the gauge vector is Reset before the error of the fetch is looked at
FetchErr_ResetFirst(w) ==
    /\ Running /\ job # 0 /\ Current = w /\ jpc \in {"fetch", "fetch_cancelled", "fetch_interrupted"}
    /\ gauge' = [gauge EXCEPT ![w] = VecReset(gauge[w])]
    /\ CycleReturns(job)
    /\ UNCHANGED <<ticker, cancelled, today, req, scraped, health, calls,
                   preCycle, lastOk, startupCycles>>

\* mutant: updateMetrics notes the error of a job and goes on to the next job
FetchErr_Continue(w) ==
    /\ Running /\ job # 0 /\ Current = w /\ jpc \in {"fetch", "fetch_cancelled", "fetch_interrupted"}
    /\ IF job < Len(Order)
       THEN /\ job' = job + 1
            /\ jpc' = "start"
            /\ result' = <<>>
            /\ idx' = 0
            /\ cycleErr' = job
            /\ UNCHANGED <<mainPc, updPc, startupFailed>>
       ELSE CycleReturns(job)
    /\ UNCHANGED <<gauge, ticker, cancelled, today, req, scraped, health, calls,
                   preCycle, lastOk, startupCycles>>

\* GetCostAndUsage returns an error: the job returns it (lines 97-100) and
\* updateMetrics returns it at once (lines 308-322)
FetchErr(w) ==
    /\ Running /\ job # 0 /\ Current = w /\ jpc \in {"fetch", "fetch_cancelled", "fetch_interrupted"}
    /\ CycleReturns(job)
    /\ UNCHANGED <<gauge, ticker, cancelled, today, req, scraped, health, calls,
                   preCycle, lastOk, startupCycles>>

\* mutant: every job resets awsCostGauge, the vector of the daily window
Reset_Daily(w) ==
    /\ Running /\ job # 0 /\ Current = w /\ jpc = "reset"
    /\ gauge' = [gauge EXCEPT !["daily"] = VecReset(gauge["daily"])]
    /\ jpc' = "loop"
    /\ idx' = 1
    /\ UNCHANGED <<mainPc, updPc, job, result, ticker, cancelled, today, req,
                   scraped, health, preCycle, lastOk, startupCycles, startupFailed,
                   cycleErr, calls>>

\* the gauge vector of the window is Reset (line 104) and the loop is entered
Reset(w) ==
    /\ Running /\ job # 0 /\ Current = w /\ jpc = "reset"
    /\ gauge' = [gauge EXCEPT ![w] = VecReset(gauge[w])]
    /\ jpc' = "loop"
    /\ idx' = 1
    /\ UNCHANGED <<mainPc, updPc, job, result, ticker, cancelled, today, req,
                   scraped, health, preCycle, lastOk, startupCycles, startupFailed,
                   cycleErr, calls>>

\* mutant: a group that fails one of the conditions makes the job return an error
SkipGroup_Error(w) ==
    /\ Running /\ job # 0 /\ Current = w /\ jpc = "loop"
    /\ idx <= Len(result)
    /\ ~Accepted(result[idx])
    /\ CycleReturns(job)
    /\ UNCHANGED <<gauge, ticker, cancelled, today, req, scraped, health, calls,
                   preCycle, lastOk, startupCycles>>

\* the loop passes a group that fails one of the conditions of lines 109-114
SkipGroup(w) ==
    /\ Running /\ job # 0 /\ Current = w /\ jpc = "loop"
    /\ idx <= Len(result)
    /\ ~Accepted(result[idx])
    /\ idx' = idx + 1
    /\ UNCHANGED <<mainPc, updPc, job, jpc, result, gauge, ticker, cancelled, today,
                   req, scraped, health, preCycle, lastOk, startupCycles, startupFailed,
                   cycleErr, calls>>

\* WithLabelValues(service, region) of line 115 for an accepted group
WithLabelValues(w) ==
    /\ Running /\ job # 0 /\ Current = w /\ jpc = "loop"
    /\ idx <= Len(result)
    /\ Accepted(result[idx])
    /\ gauge' = [gauge EXCEPT ![w] = VecWithLabelValues(gauge[w], LabelsOf(result[idx]))]
    /\ jpc' = "set"
    /\ UNCHANGED <<mainPc, updPc, job, result, idx, ticker, cancelled, today, req,
                   scraped, health, preCycle, lastOk, startupCycles, startupFailed,
                   cycleErr, calls>>

\* Set(amount) of line 115 on the child obtained, then the next group
Set(w) ==
    /\ Running /\ job # 0 /\ Current = w /\ jpc = "set"
    /\ gauge' = [gauge EXCEPT ![w] = VecSet(gauge[w], LabelsOf(result[idx]), AmountOf(result[idx]))]
    /\ jpc' = "loop"
    /\ idx' = idx + 1
    /\ UNCHANGED <<mainPc, updPc, job, result, ticker, cancelled, today, req,
                   scraped, health, preCycle, lastOk, startupCycles, startupFailed,
                   cycleErr, calls>>

\* the loop is over and the job returns nil (line 124): updateMetrics goes on
\* to the next job, or returns nil after the fourth (lines 308-324)
JobReturn(w) ==
    /\ Running /\ job # 0 /\ Current = w /\ jpc = "loop"
    /\ idx > Len(result)
    /\ IF job < Len(Order)
       THEN /\ job' = job + 1
            /\ jpc' = "start"
            /\ result' = <<>>
            /\ idx' = 0
            /\ UNCHANGED <<mainPc, updPc, cycleErr, startupFailed>>
       ELSE CycleReturns(0)
    /\ UNCHANGED <<gauge, ticker, cancelled, today, req, scraped, health, calls,
                   preCycle, lastOk, startupCycles>>

\* main starts the updater goroutine (line 369) and registers the handlers
Spawn ==
    /\ mainPc = "spawn"
    /\ mainPc' = "listen"
    /\ updPc' = "spawned"
    /\ UNCHANGED <<job, jpc, result, idx, gauge, ticker, cancelled, today, req,
                   scraped, health, preCycle, lastOk, startupCycles, startupFailed,
                   cycleErr, calls>>

\* http.ListenAndServe binds the port and serves (line 383)
Listen ==
    /\ mainPc = "listen"
    /\ mainPc' = "serving"
    /\ UNCHANGED <<updPc, job, jpc, result, idx, gauge, ticker, cancelled, today, req,
                   scraped, health, preCycle, lastOk, startupCycles, startupFailed,
                   cycleErr, calls>>

\* http.ListenAndServe returns an error and log.Fatal ends the process (line 383)
ListenFails ==
    /\ mainPc = "listen"
    /\ mainPc' = "exited"
    /\ UNCHANGED <<updPc, job, jpc, result, idx, gauge, ticker, cancelled, today, req,
                   scraped, health, preCycle, lastOk, startupCycles, startupFailed,
                   cycleErr, calls>>

\* the updater goroutine starts: it creates the ticker and calls updateMetrics
\* before entering its loop (lines 328-331)
UpdaterFirst ==
    /\ Running /\ updPc = "spawned"
    /\ updPc' = "first"
    /\ job' = 1
    /\ jpc' = "start"
    /\ cycleErr' = 0
    /\ calls' = <<>>
    /\ preCycle' = gauge
    /\ startupCycles' = startupCycles + 1
    /\ UNCHANGED <<mainPc, result, idx, gauge, ticker, cancelled, today, req,
                   scraped, health, lastOk, startupFailed>>

\* the ticker fires; ticker.C buffers one tick and a tick that finds it full is dropped
Tick ==
    /\ Running /\ updPc \in {"first", "select", "cycle"}
    /\ ticker = 0
    /\ ticker' = 1
    /\ UNCHANGED <<mainPc, updPc, job, jpc, result, idx, gauge, cancelled, today, req,
                   scraped, health, preCycle, lastOk, startupCycles, startupFailed,
                   cycleErr, calls>>

\* mutant: the tick is received while the cycle it would overlap is running
\* (the cycle of a tick run in a goroutine of its own)
SelectTick_Overlap ==
    /\ Running /\ updPc \in {"select", "cycle"}
    /\ ticker = 1
    /\ ticker' = 0
    /\ updPc' = "cycle"
    /\ job' = 1
    /\ jpc' = "start"
    /\ cycleErr' = 0
    /\ calls' = <<>>
    /\ preCycle' = gauge
    /\ UNCHANGED <<mainPc, result, idx, gauge, cancelled, today, req, scraped, health,
                   lastOk, startupCycles, startupFailed>>

\* mutant: a tick cycle after a failed cycle resumes at the job that failed
SelectTick_Resume ==
    /\ Running /\ updPc = "select"
    /\ ticker = 1
    /\ ticker' = 0
    /\ updPc' = "cycle"
    /\ job' = (IF cycleErr # 0 THEN cycleErr ELSE 1)
    /\ jpc' = "start"
    /\ cycleErr' = 0
    /\ calls' = <<>>
    /\ preCycle' = gauge
    /\ UNCHANGED <<mainPc, result, idx, gauge, cancelled, today, req, scraped, health,
                   lastOk, startupCycles, startupFailed>>

\* select takes the case <-ticker.C (lines 335-338); when ctx.Done() is ready
\* too, select picks either case
SelectTick ==
    /\ Running /\ updPc = "select"
    /\ ticker = 1
    /\ ticker' = 0
    /\ updPc' = "cycle"
    /\ job' = 1
    /\ jpc' = "start"
    /\ cycleErr' = 0
    /\ calls' = <<>>
    /\ preCycle' = gauge
    /\ UNCHANGED <<mainPc, result, idx, gauge, cancelled, today, req, scraped, health,
                   lastOk, startupCycles, startupFailed>>

\* select takes the case <-ctx.Done() and the updater returns (lines 339-340)
SelectDone ==
    /\ Running /\ updPc = "select"
    /\ cancelled
    /\ updPc' = "exited"
    /\ UNCHANGED <<mainPc, job, jpc, result, idx, gauge, ticker, cancelled, today, req,
                   scraped, health, preCycle, lastOk, startupCycles, startupFailed,
                   cycleErr, calls>>

\* the context handed to updateMetrics and startMetricsUpdater is cancelled by
\* its owner.  main hands in context.Background() (line 346), which nothing
\* cancels; the action stands for a caller of startMetricsUpdater that does.
\* The same ctx is the first argument of GetCostAndUsage (line 96): a call in
\* flight whose response has not arrived is aborted by the cancellation and
\* can only return an error; one whose response has arrived is not affected.
Cancel ==
    /\ Running /\ ~cancelled
    /\ cancelled' = TRUE
    /\ IF job # 0 /\ jpc = "fetch"
       THEN jpc' \in {"fetch", "fetch_interrupted"}
       ELSE UNCHANGED jpc
    /\ UNCHANGED <<mainPc, updPc, job, result, idx, gauge, ticker, today, req,
                   scraped, health, preCycle, lastOk, startupCycles, startupFailed,
                   cycleErr, calls>>

\* mutant: the job of a window holds the lock of its gauge vector from its
\* start to its return, the fetch included, and Collect waits for it
Scrape_Locked(w) ==
    /\ Running /\ mainPc = "serving"
    /\ ~(job # 0 /\ Current = w)
    /\ scraped' = [window |-> w, seen |-> gauge[w]]
    /\ UNCHANGED <<mainPc, updPc, job, jpc, result, idx, gauge, ticker, cancelled,
                   today, req, health, preCycle, lastOk, startupCycles, startupFailed,
                   cycleErr, calls>>

\* a GET /metrics collects the gauge vector of window w (line 371); Collect
\* reads the vector under its lock, between two operations of a job
Scrape(w) ==
    /\ Running /\ mainPc = "serving"
    /\ scraped' = [window |-> w, seen |-> gauge[w]]
    /\ UNCHANGED <<mainPc, updPc, job, jpc, result, idx, gauge, ticker, cancelled,
                   today, req, health, preCycle, lastOk, startupCycles, startupFailed,
                   cycleErr, calls>>

\* the wall clock passes midnight: the next time.Now() a job reads (lines 69,
\* 128, 187, 247) is on the following day
Midnight ==
    /\ Running /\ today < ClockFirst + ClockSpan
    /\ today' = today + 1
    /\ UNCHANGED <<mainPc, updPc, job, jpc, result, idx, gauge, ticker, cancelled,
                   req, scraped, health, preCycle, lastOk, startupCycles, startupFailed,
                   cycleErr, calls>>

\* a GET /health answers 200 OK (lines 372-375)
Health ==
    /\ Running /\ mainPc = "serving"
    /\ health' = 200
    /\ UNCHANGED <<mainPc, updPc, job, jpc, result, idx, gauge, ticker, cancelled,
                   today, req, scraped, preCycle, lastOk, startupCycles, startupFailed,
                   cycleErr, calls>>

\* the handler has written its response and returns
Respond ==
    /\ ~NoRequest
    /\ scraped' = NoScrape
    /\ health' = 0
    /\ UNCHANGED <<mainPc, updPc, job, jpc, result, idx, gauge, ticker, cancelled,
                   today, req, preCycle, lastOk, startupCycles, startupFailed,
                   cycleErr, calls>>

----------------------------------------------------------------------------
(* Specifications *)

\* the state of the startup cycle (line 365) on day d when it reaches job k,
\* the fetches of the jobs before k having returned no groups; k = 1 is the
\* state in which main calls updateMetrics
InitAt(d, k) ==
    /\ mainPc = "startup"
    /\ updPc = "none"
    /\ job = k
    /\ jpc = "start"
    /\ result = <<>>
    /\ idx = 0
    /\ gauge = [w \in Windows |-> EmptyVec]
    /\ ticker = 0
    /\ cancelled = FALSE
    /\ today = d
    /\ req = [w \in Windows |->
                IF \E i \in 1..(k - 1) : Order[i] = w THEN RangeOf(w, d) ELSE NoRange]
    /\ scraped = NoScrape
    /\ health = 0
    /\ cycleErr = 0
    /\ calls = SubSeq(Order, 1, k - 1)
    /\ preCycle = [w \in Windows |-> EmptyVec]
    /\ lastOk = [w \in Windows |-> EmptyVec]
    /\ startupCycles = 1
    /\ startupFailed = FALSE

\* the steps of a job fed with results from R
JobSteps(R) ==
    \E w \in Windows :
        \/ JobStart(w)
        \/ FetchOk(w, R)
        \/ FetchErr(w)
        \/ Reset(w)
        \/ SkipGroup(w)
        \/ WithLabelValues(w)
        \/ Set(w)
        \/ JobReturn(w)

Init == InitAt(Date(2024, 3, 15), 1)

Next ==
    \/ JobSteps(CycleResults)
    \/ Spawn
    \/ Listen
    \/ ListenFails
    \/ UpdaterFirst
    \/ Tick
    \/ SelectTick
    \/ SelectDone
    \/ Cancel
    \/ \E w \in Windows : Scrape(w)
    \/ Health
    \/ Respond

Spec == Init /\ [][Next]_vars

----------------------------------------------------------------------------
(* The window computations on their own: the startup cycle on any day of    *)
(* Days, its fetches returning no groups or failing.                        *)

InitDates == \E d \in Days : InitAt(d, 1)

NextDates ==
    \E w \in Windows :
        \/ JobStart(w)
        \/ FetchOk(w, {<<>>})
        \/ FetchErr(w)
        \/ Reset(w)
        \/ JobReturn(w)

SpecDates == InitDates /\ [][NextDates]_vars

----------------------------------------------------------------------------
(* The startup cycle under a moving clock: it starts on one of the days     *)
(* from 2024-02-28 on, and midnight may pass between any two of its steps.  *)

InitClock == \E d \in ClockFirst..(ClockFirst + ClockSpan) : InitAt(d, 1)

NextClock ==
    \/ NextDates
    \/ Midnight

SpecClock == InitClock /\ [][NextClock]_vars

----------------------------------------------------------------------------
(* The startup cycle over malformed records: each fetch fails or returns a  *)
(* result built from one well-formed group and one group of each malformed  *)
(* kind.                                                                    *)

RecordGroups ==
    { Group(<<"AmazonEC2">>, Metric("UnblendedCost", Str(<<"5">>))),
      Group(EC2, NoMetrics),
      Group(EC2, Metric("UnblendedCost", Nil)),
      Group(EC2, Metric("UnblendedCost", Str(<<"x">>))),
      Group(EC2, Metric("UnblendedCost", Str(<<"5">>))) }

RecordResults == SeqsUpTo(RecordGroups, MaxGroups)

NextRecords == JobSteps(RecordResults)

SpecRecords == Init /\ [][NextRecords]_vars

----------------------------------------------------------------------------
(* The aggregation on its own: one job of the startup cycle, from its fetch *)
(* to the end of its loop, over every result built from AggGroups.          *)

AggKeys ==
    { <<>>, <<"AmazonEC2">>, EC2, S3, <<"AmazonEC2", "us-east-1", "extra">> }

AggMetrics ==
    { NoMetrics,
      Metric("BlendedCost", Str(<<"5">>)),
      Metric("UnblendedCost", Nil),
      Metric("UnblendedCost", Str(<<>>)),
      Metric("UnblendedCost", Str(<<"x">>)),
      Metric("UnblendedCost", Str(<<"5">>)),
      Metric("UnblendedCost", Str(<<"-", "1", ".", "5">>)),
      Metric("UnblendedCost", Str(<<"1", "2", ".", "3", "4", "5", "6">>)) }

AggGroups == {Group(k, m) : k \in AggKeys, m \in AggMetrics}

AggResults == SeqsUpTo(AggGroups, MaxGroups)

InitAgg == \E k \in 1..Len(Order) : InitAt(Date(2024, 3, 15), k)

NextAgg ==
    \E w \in Windows :
        \/ JobStart(w)
        \/ FetchOk(w, AggResults)
        \/ Reset(w)
        \/ SkipGroup(w)
        \/ WithLabelValues(w)
        \/ Set(w)

SpecAgg == InitAgg /\ [][NextAgg]_vars

----------------------------------------------------------------------------
(* Properties *)

\* a job of window w is running: from its call to its return
JobRunning(w) == job # 0 /\ Current = w

IsPrefix(a, b) == Len(a) <= Len(b) /\ SubSeq(b, 1, Len(a)) = a

\* C1: a scrape that runs concurrently with a refresh job of a window observes
\* either the complete snapshot exposed before the job or the complete snapshot
\* the job installs, never a partially cleared or partially populated gauge.
CE_C1 ==
    [][\A w \in Windows :
          Scrape(w) => scraped'.seen \in {preCycle[w], lastOk[w]}]_vars

\* C2: whenever no refresh job of window W is in progress, W's gauge exposes
\* exactly the aggregate of W's most recent successful fetch (nothing if there
\* was none): the gauge is replaced, never merged.
Thm_C2 ==
    \A w \in Windows : ~JobRunning(w) => gauge[w] = lastOk[w]

\* a cycle is running in which the job of some window has returned after a
\* fetch without accepted groups, and the label pair the gauge exposed when
\* the cycle began is gone
Witness_C2 ==
    \E i \in 1..Len(Order) :
        /\ job > i
        /\ preCycle[Order[i]] # EmptyVec
        /\ lastOk[Order[i]] = EmptyVec
        /\ gauge[Order[i]] = EmptyVec

\* C3: if the fetch of window W fails in a cycle, W's gauge exposes after the
\* cycle exactly what it exposed before it.
Thm_C3 ==
    \A k \in 1..Len(Order) :
        (job = 0 /\ cycleErr = k) => gauge[Order[k]] = preCycle[Order[k]]

\* a cycle has ended on the failed fetch of a window whose gauge holds a value
Witness_C3 ==
    /\ job = 0
    /\ cycleErr # 0
    /\ gauge[Order[cycleErr]] # EmptyVec

\* C4: within a cycle the jobs run in the order daily, monthly, previous day,
\* previous month, and a fetch is invoked only if every earlier fetch of the
\* cycle succeeded: after the fetch of job k fails, no later window is fetched
\* for in that cycle and the later gauges keep their pre-cycle values.
Thm_C4 ==
    /\ IsPrefix(calls, Order)
    /\ job # 0 => cycleErr = 0 /\ Len(calls) \in {job - 1, job}
    /\ \A k \in 1..Len(Order) :
          cycleErr = k =>
              /\ calls = SubSeq(Order, 1, k)
              /\ \A j \in (k + 1)..Len(Order) : gauge[Order[j]] = preCycle[Order[j]]

\* a cycle has ended on the failed fetch of the first job while a later gauge
\* holds a value
Witness_C4 ==
    /\ job = 0
    /\ cycleErr = 1
    /\ calls = <<"daily">>
    /\ \E j \in 2..Len(Order) : gauge[Order[j]] # EmptyVec

\* C5: the refresh cycle is executed exactly once at process startup, before
\* any tick; every further cycle is triggered by a tick.
CE_C5 == startupCycles <= 1

\* C6: once the context is cancelled the updater loop never starts another
\* cycle, also when a tick is pending when the loop next waits.
CE_C6 == [][cancelled => ~(updPc = "select" /\ updPc' = "cycle")]_vars

\* C7: a failed startup cycle is not fatal: main still starts the updater and
\* calls the listener, and /health answers 200 whether or not any cycle has
\* succeeded.
Thm_C7 ==
    /\ startupFailed =>
          \/ mainPc = "spawn"
          \/ updPc # "none" /\ mainPc \in {"listen", "serving", "exited"}
    /\ mainPc = "exited" => updPc # "none"
    /\ health \in {0, 200}

\* the startup cycle and the updater's cycles so far have failed, every gauge
\* is empty, and /health has just answered 200
Witness_C7 ==
    /\ startupFailed
    /\ mainPc = "serving"
    /\ updPc = "select"
    /\ cycleErr # 0
    /\ \A w \in Windows : gauge[w] = EmptyVec /\ lastOk[w] = EmptyVec
    /\ health = 200

----------------------------------------------------------------------------
(* The calendar, stated without day numbers: month lengths, counted forward *)

RefDaysIn(year, month) ==
    IF month = 2 THEN (IF isLeap(year) THEN 29 ELSE 28)
    ELSE IF month \in {4, 6, 9, 11} THEN 30 ELSE 31

\* the date k days after date c, stepping from month to month
RECURSIVE RefAfter(_, _)
RefAfter(c, k) ==
    LET left == RefDaysIn(c[1], c[2]) - c[3]
    IN  IF k <= left THEN <<c[1], c[2], c[3] + k>>
        ELSE IF c[2] < 12 THEN RefAfter(<<c[1], c[2] + 1, 1>>, k - left - 1)
        ELSE RefAfter(<<c[1] + 1, 1, 1>>, k - left - 1)

\* the date of day number n, counted forward from FirstDate
RefDate(n) == RefAfter(FirstDate, n - FirstDay)

\* the reference range of window w on day number n
RefRange(w, n) ==
    LET c == RefDate(n)
        firstOfMonth == <<c[1], c[2], 1>>
        firstOfPrev  == IF c[2] = 1 THEN <<c[1] - 1, 12, 1>> ELSE <<c[1], c[2] - 1, 1>>
    IN  CASE w = "daily"          -> [Start |-> RefDate(n - 1), End |-> c]
          [] w = "monthly"        -> [Start |-> firstOfMonth, End |-> c]
          [] w = "previous_day"   -> [Start |-> RefDate(n - 2), End |-> RefDate(n - 1)]
          [] w = "previous_month" -> [Start |-> firstOfPrev, End |-> firstOfMonth]

\* dates compare as their "2006-01-02" strings do
DateLess(a, b) ==
    \/ a[1] < b[1]
    \/ a[1] = b[1] /\ a[2] < b[2]
    \/ a[1] = b[1] /\ a[2] = b[2] /\ a[3] < b[3]

\* C8: for every 'now' the range requested for each window is the reference
\* range: daily [now - 1 day, now), monthly [first of now's month, now),
\* previous day [now - 2 days, now - 1 day), previous month [first of the
\* previous month, first of now's month); on 2024-03-15 these are
\* [03-14, 03-15), [03-01, 03-15), [03-13, 03-14) and [02-01, 03-01).
Thm_C8 ==
    /\ \A w \in Windows : req[w] # NoRange => req[w] = RefRange(w, today)
    /\ RefDate(today) = <<2024, 3, 15>> =>
          /\ req["daily"] \in {NoRange, [Start |-> <<2024, 3, 14>>, End |-> <<2024, 3, 15>>]}
          /\ req["monthly"] \in {NoRange, [Start |-> <<2024, 3, 1>>, End |-> <<2024, 3, 15>>]}
          /\ req["previous_day"] \in
                {NoRange, [Start |-> <<2024, 3, 13>>, End |-> <<2024, 3, 14>>]}
          /\ req["previous_month"] \in
                {NoRange, [Start |-> <<2024, 2, 1>>, End |-> <<2024, 3, 1>>]}

\* all four ranges have been requested on the first of January after a
\* December, the previous month's range starting in the year before
Witness_C8 ==
    /\ RefDate(today) = <<2024, 1, 1>>
    /\ \A w \in Windows : req[w] # NoRange
    /\ req["previous_month"].Start = <<2023, 12, 1>>
    /\ req["previous_day"].Start = <<2023, 12, 30>>

\* C9: for every window and every 'now' the requested range has start < end,
\* also the month-to-date range on the first day of a month.
CE_C9 ==
    \A w \in Windows : req[w] # NoRange => DateLess(req[w].Start, req[w].End)

\* C10: the snapshot a job installs holds (keys[0], keys[1]) -> amount exactly
\* for the groups with at least two keys, the UnblendedCost metric with an
\* amount present, and an amount that parses; every other group contributes
\* nothing; of several groups with one label pair the last one's amount stands.
Thm_C10 ==
    (job # 0 /\ jpc = "loop" /\ idx > Len(result)) => gauge[Current] = Snapshot(result)

\* a job's loop has ended over two accepted groups of one label pair with
\* different amounts
Witness_C10 ==
    /\ job # 0 /\ jpc = "loop" /\ idx > Len(result)
    /\ Len(result) = 2
    /\ Accepted(result[1]) /\ Accepted(result[2])
    /\ LabelsOf(result[1]) = LabelsOf(result[2])
    /\ AmountOf(result[1]) # AmountOf(result[2])
    /\ gauge[Current][LabelsOf(result[2])] = AmountOf(result[2])

\* C11: every value exposed by any of the four gauges is non-negative; a group
\* whose amount parses to a negative number never leads to an exposed negative
\* value.
CE_C11 ==
    \A w \in Windows : \A lp \in DOMAIN gauge[w] : gauge[w][lp] >= 0

\* C12: a cycle aborted by a fetch error leaves the goroutine that ran it
\* running; with a tick pending and no cancellation the updater can take the
\* tick; every cycle starts at the first window with nothing fetched yet; and
\* a job that returns after a successful fetch leaves its gauge at the
\* snapshot of what was fetched.
Thm_C12 ==
    [][ /\ (job # 0 /\ job' = 0 /\ cycleErr' # 0) =>
               /\ mainPc' # "exited"
               /\ IF mainPc = "startup" THEN mainPc' = "spawn" ELSE updPc' = "select"
        /\ (Running /\ updPc = "select" /\ cycleErr # 0 /\ ticker = 1 /\ ~cancelled) =>
               ENABLED SelectTick
        /\ (job = 0 /\ job' # 0) => (job' = 1 /\ jpc' = "start" /\ calls' = <<>>)
        /\ (job # 0 /\ jpc = "loop" /\ (job' # job \/ jpc' = "idle")) =>
               gauge'[Current] = lastOk[Current]
      ]_vars

\* the startup cycle and the updater's first cycle both failed at the first
\* window (the second window was never requested); the tick cycle started at
\* the first window again, its fetch succeeded and its gauge was refreshed
Witness_C12 ==
    /\ updPc = "cycle" /\ job = 2 /\ jpc = "start"
    /\ startupFailed
    /\ req["monthly"] = NoRange
    /\ preCycle["daily"] = EmptyVec
    /\ gauge["daily"] # EmptyVec

\* C13: in every state in which a fetch is in flight, the fetches of the
\* startup cycle included, a scrape of any gauge and a health request can be
\* accepted and answered.
CE_C13 ==
    (mainPc # "exited" /\ FetchInFlight) =>
        IF NoRequest
        THEN ENABLED Health /\ \A w \in Windows : ENABLED Scrape(w)
        ELSE ENABLED Respond

\* C13 (amended): once ListenAndServe is serving, a fetch in flight never
\* keeps a scrape or a health request from being accepted and answered; the
\* fetches of the startup cycle are made before the listener is started, and
\* no request is accepted while that cycle runs.
Thm_C13 ==
    /\ (mainPc = "serving" /\ FetchInFlight) =>
           IF NoRequest
           THEN ENABLED Health /\ \A w \in Windows : ENABLED Scrape(w)
           ELSE ENABLED Respond
    /\ mainPc = "startup" =>
           ~(ENABLED Health) /\ \A w \in Windows : ~(ENABLED Scrape(w))

\* a scrape of the gauge of the window being fetched has been accepted while
\* the fetch is in flight
Witness_C13 ==
    /\ mainPc = "serving" /\ FetchInFlight
    /\ scraped # NoScrape /\ scraped.window = Current

\* C14: a fetch in flight when cancellation is requested is not interrupted or
\* failed by the cancellation: a fetch issued before the cancellation can
\* still return a result for as long as it is in flight.
CE_C14 ==
    (Running /\ FetchInFlight /\ jpc # "fetch_cancelled") =>
        ENABLED FetchOk(Current, CycleResults)

\* C15: once the fetch of a job has succeeded, no step of the job ends the
\* cycle with an error, whatever the groups contain: the loop can always
\* take its next step, and the job ends by passing on to the next window or,
\* after the last window, by the cycle returning success; a cycle is aborted
\* only by a step that returns from a fetch.
Thm_C15 ==
    [][ /\ (job # 0 /\ jpc \in {"reset", "loop", "set"}) =>
               /\ cycleErr' = 0
               /\ \/ job' = job
                  \/ job' = job + 1 /\ jpc' = "start"
                  \/ job = Len(Order) /\ job' = 0
        /\ (Running /\ job # 0 /\ jpc = "loop") =>
               ENABLED (SkipGroup(Current) \/ WithLabelValues(Current) \/ JobReturn(Current))
        /\ (job # 0 /\ job' = 0 /\ cycleErr' # 0) => FetchInFlight
      ]_vars

\* after the first job returned success, the loop of the second job has
\* passed a group with one key and a group with an unparsable amount, exposing
\* nothing, and is at its return with no error
Witness_C15 ==
    /\ job = 2 /\ jpc = "loop" /\ idx > Len(result) /\ cycleErr = 0
    /\ Len(result) = 2
    /\ Len(result[1].Keys) = 1
    /\ result[2] = Group(EC2, Metric("UnblendedCost", Str(<<"x">>)))
    /\ gauge[Current] = EmptyVec

\* C16: a step changes the gauge of a window only when it is a step of the
\* running job of that window; the job of a window, succeeding or failing,
\* leaves the other three gauges as they were.
Thm_C16 ==
    [][\A w \in Windows : gauge'[w] # gauge[w] => (job # 0 /\ Current = w)]_vars

\* in a tick cycle the job of the second window has replaced its gauge, while
\* the first gauge holds what its job installed and the last two hold what
\* they held when the cycle started
Witness_C16 ==
    /\ updPc = "cycle" /\ job = 2 /\ jpc = "loop" /\ idx > Len(result)
    /\ gauge["monthly"] # preCycle["monthly"]
    /\ gauge["daily"] = lastOk["daily"] /\ gauge["daily"] # EmptyVec
    /\ \A w \in {"previous_day", "previous_month"} :
           gauge[w] = preCycle[w] /\ gauge[w] # EmptyVec

\* C17: replacing is idempotent: when the groups fetched by a job describe the
\* mapping its gauge already exposed when the cycle started (as they do when
\* the previous successful job of the window fetched the same groups), the
\* gauge exposes that same mapping when the job's loop has ended.
Thm_C17 ==
    (job # 0 /\ jpc = "loop" /\ idx > Len(result)
        /\ Snapshot(result) = preCycle[Current]) => gauge[Current] = preCycle[Current]

\* a job of a later cycle has fetched two groups describing the non-empty
\* mapping its gauge exposed before, and exposes that mapping again
Witness_C17 ==
    /\ updPc \in {"first", "cycle"}
    /\ job # 0 /\ jpc = "loop" /\ idx > Len(result)
    /\ Len(result) = 2
    /\ preCycle[Current] # EmptyVec
    /\ Snapshot(result) = preCycle[Current]
    /\ gauge[Current] = preCycle[Current]

\* the number of goroutines that are inside a call of updateMetrics
InCycle ==
    (IF mainPc = "startup" THEN 1 ELSE 0) + (IF updPc \in {"first", "cycle"} THEN 1 ELSE 0)

\* C18: at most one goroutine is inside updateMetrics, and a job is running
\* only on behalf of that one; the updater starts its first cycle only after
\* main's startup cycle has returned; a tick that fires during a cycle starts
\* nothing, and a tick is received, starting a cycle, only when no cycle is
\* running.
Thm_C18 ==
    [][ /\ InCycle <= 1
        /\ job # 0 => InCycle = 1
        /\ (updPc # "first" /\ updPc' = "first") => (mainPc # "startup" /\ job = 0)
        /\ (ticker = 0 /\ ticker' = 1) => UNCHANGED <<mainPc, updPc, job, jpc, calls, gauge>>
        /\ (ticker = 1 /\ ticker' = 0) => (job = 0 /\ updPc = "select" /\ updPc' = "cycle")
      ]_vars

\* a tick has fired while the fetch of the third job of a tick cycle is in
\* flight; it waits in the ticker's channel and the cycle goes on
Witness_C18 ==
    /\ updPc = "cycle" /\ job = 3 /\ jpc = "fetch"
    /\ ticker = 1
    /\ mainPc = "serving"

\* window w has been requested in the running (or last) cycle
Requested(w) == \E i \in 1..Len(calls) : calls[i] = w

\* C19: the ranges requested within one cycle derive from one 'now': the
\* monthly end is the daily end, the previous_day end is the daily start and
\* the previous_month end is the monthly start, also when the date changes
\* while the cycle runs.
CE_C19 ==
    /\ Requested("monthly") => req["monthly"].End = req["daily"].End
    /\ Requested("previous_day") => req["previous_day"].End = req["daily"].Start
    /\ Requested("previous_month") => req["previous_month"].End = req["monthly"].Start

====
